---------------------------- MODULE Spec2Model ----------------------------
(* A model of labelcorrection.py: the s-expression command language       *)
(* (tokenize / parse / deparse), the evaluator, the raw label operations, *)
(* invert, and the CorrectionStack undo/redo engine.                      *)
(*                                                                        *)
(* Python values are records tagged by k:                                 *)
(*   num  (n)  a number (times are modelled as integers)                  *)
(*   str  (s)  a plain str                                                *)
(*   null      None                                                       *)
(*   sym  (s)  a Symbol                                                   *)
(*   key  (s)  a KeyArg (a subclass of Symbol)                            *)
(*   list (l)  a Python list (a nested s-expression)                      *)
(*   dict (d)  a dict built by the evaluator                              *)
(*   env  (s)  an object bound in the evaluation environment              *)
(* A label (a Python dict) is a function from field names to values; its  *)
(* insertion order is the order of FieldOrder.                            *)
EXTENDS Integers, Sequences, FiniteSets, TLC

VARIABLES labels, undo_stack, redo_stack, err, ret, op, prev, hist, steps,
          expr, text, tree, uuid, label_hash, disk

vars ==
    <<labels, undo_stack, redo_stack, err, ret, op, prev, hist, steps,
      expr, text, tree, uuid, label_hash, disk>>

---------------------------------------------------------------------------
(* The bound of the model.                                                *)

(* The number of calls made on an engine.                                 *)
MaxSteps == 3

---------------------------------------------------------------------------
(* Python values.                                                         *)

Num(n) == [k |-> "num", n |-> n]
Str(s) == [k |-> "str", s |-> s]
None == [k |-> "null"]
Symbol(s) == [k |-> "sym", s |-> s]
KeyArg(s) == [k |-> "key", s |-> s]
List(l) == [k |-> "list", l |-> l]
Dict(d) == [k |-> "dict", d |-> d]
EnvObj(s) == [k |-> "env", s |-> s]

NoErr == "none"

IsStr(v) == v.k \in {"str", "sym", "key"}
IsSymbol(v) == v.k \in {"sym", "key"}
IsKeyArg(v) == v.k = "key"
IsNum(v) == v.k = "num"
IsList(v) == v.k = "list"

(* Python ==: Symbol and KeyArg are str subclasses and compare by content. *)
RECURSIVE PyEq(_, _)
PyEq(a, b) ==
    IF IsStr(a) /\ IsStr(b) THEN a.s = b.s
    ELSE IF IsList(a) /\ IsList(b)
         THEN /\ Len(a.l) = Len(b.l)
              /\ \A i \in 1..Len(a.l) : PyEq(a.l[i], b.l[i])
         ELSE a = b

Min(a, b) == IF a < b THEN a ELSE b

(* s[a:b] on a str, 0-based, end exclusive, clamped as Python clamps.      *)
Slice(s, a, b) == SubSeq(s, a + 1, Min(b, Len(s)))

(* list indexing: 0-based, negative indices count from the end.            *)
PyNorm(seq, i) == IF i < 0 THEN i + Len(seq) ELSE i
PyInRange(seq, i) == PyNorm(seq, i) \in 0..(Len(seq) - 1)
PyGet(seq, i) == seq[PyNorm(seq, i) + 1]
PySet(seq, i, x) == [seq EXCEPT ![PyNorm(seq, i) + 1] = x]
PyPop(seq, i) ==
    LET j == PyNorm(seq, i) + 1
    IN  SubSeq(seq, 1, j - 1) \o SubSeq(seq, j + 1, Len(seq))
PyInsert(seq, i, x) ==
    LET j == IF i >= 0 THEN Min(i, Len(seq))
             ELSE IF i + Len(seq) > 0 THEN i + Len(seq) ELSE 0
    IN  SubSeq(seq, 1, j) \o <<x>> \o SubSeq(seq, j + 1, Len(seq))

(* list.index(x): the 1-based position of the first element == the str x, *)
(* or 0 (Python raises ValueError).                                       *)
ListIndex(l, x) ==
    LET hits == {i \in 1..Len(l) : IsStr(l[i]) /\ l[i].s = x}
    IN  IF hits = {} THEN 0 ELSE CHOOSE i \in hits : \A j \in hits : i <= j

(* d[k] = v on a dict.                                                     *)
DictSet(d, key, v) == [x \in (DOMAIN d) \cup {key} |-> IF x = key THEN v ELSE d[x]]
DictDel(d, keys) == [x \in (DOMAIN d) \ keys |-> d[x]]

(* Insertion order of the fields of a label.                               *)
InDict(d, key) == key \in DOMAIN d
KeysOf(d) == SelectSeq(<<"start", "stop", "name", "tier", "index">>,
                      LAMBDA f : f \in DOMAIN d)

---------------------------------------------------------------------------
(* Code generators.  A target / other_args dict under construction is a   *)
(* sequence of <<key, value>> pairs in insertion order.  Each generator   *)
(* returns [err, cmd]; err is the exception raised while reading labels.  *)

Flatten(pairs) ==
    LET RECURSIVE F(_)
        F(i) == IF i > Len(pairs) THEN <<>>
                ELSE <<KeyArg(pairs[i][1]), pairs[i][2]>> \o F(i + 1)
    IN  F(1)

_gen_code(opname, target_name, target, other_args) ==
    <<Symbol(opname), KeyArg("labels"), Symbol("labels"), KeyArg("target"),
      List(<<Symbol(target_name)>> \o Flatten(target))>> \o Flatten(other_args)

(* d[key] = v on a dict under construction: a key already present keeps   *)
(* its position.                                                          *)
PairSet(pairs, key, v) ==
    IF \E i \in 1..Len(pairs) : pairs[i][1] = key
    THEN [i \in 1..Len(pairs) |-> IF pairs[i][1] = key THEN <<key, v>> ELSE pairs[i]]
    ELSE Append(pairs, <<key, v>>)

(* d.update(more), or a run of d[key] = v, in the order of more.           *)
RECURSIVE PairUpdate(_, _)
PairUpdate(pairs, more) ==
    IF more = <<>> THEN pairs
    ELSE PairUpdate(PairSet(pairs, more[1][1], more[1][2]), Tail(more))

Ok(cmd) == [err |-> NoErr, cmd |-> cmd]
Raise(e) == [err |-> e, cmd |-> <<>>]

(* The exception of labels[index][column], or NoErr.                       *)
ReadErr(ls, index, column) ==
    IF ~PyInRange(ls, index) THEN "IndexError"
    ELSE IF ~InDict(PyGet(ls, index), column) THEN "KeyError"
    ELSE NoErr

codegen_set(ls, opname, column, index, new_value) ==
    IF ReadErr(ls, index, column) # NoErr THEN Raise(ReadErr(ls, index, column))
    ELSE Ok(_gen_code(opname, "interval",
                      <<<<"index", Num(index)>>,
                        <<column, PyGet(ls, index)[column]>>>>,
                      <<<<"new_" \o column, new_value>>>>))

codegen_rename(ls, index, new_name) ==
    codegen_set(ls, "set_name", "name", index, new_name)

codegen_set_start(ls, index, new_start) ==
    codegen_set(ls, "set_start", "start", index, new_start)

codegen_set_stop(ls, index, new_stop) ==
    codegen_set(ls, "set_stop", "stop", index, new_stop)

(* The extra columns of a label, in insertion order.                       *)
Columns(label) ==
    SelectSeq(KeysOf(label), LAMBDA c : c \notin {"start", "stop", "name"})

FirstErr(errs) ==
    LET bad == {i \in 1..Len(errs) : errs[i] # NoErr}
    IN  IF bad = {} THEN NoErr
        ELSE errs[CHOOSE i \in bad : \A j \in bad : i <= j]

codegen_merge_next(ls, index, new_name) ==
    LET e1 == FirstErr(<<ReadErr(ls, index, "name"), ReadErr(ls, index, "stop"),
                         ReadErr(ls, index + 1, "start"),
                         ReadErr(ls, index + 1, "name")>>)
    IN
    IF e1 # NoErr THEN Raise(e1)
    ELSE
    LET cur == PyGet(ls, index)
        nxt == PyGet(ls, index + 1)
        cols == Columns(cur)
        e2 == FirstErr([i \in 1..Len(cols) |->
                          IF InDict(nxt, cols[i]) THEN NoErr ELSE "KeyError"])
        name == IF new_name # None THEN new_name
                ELSE Str(cur["name"].s \o nxt["name"].s)
        RECURSIVE TCols(_)
        TCols(i) == IF i > Len(cols) THEN <<>>
                    ELSE <<<<cols[i], cur[cols[i]]>>,
                           <<"next_" \o cols[i], nxt[cols[i]]>>>> \o TCols(i + 1)
        RECURSIVE OCols(_)
        OCols(i) == IF i > Len(cols) THEN <<>>
                    ELSE <<<<"new_" \o cols[i], None>>,
                           <<"new_next_" \o cols[i], None>>>> \o OCols(i + 1)
    IN
    IF new_name = None /\ ~(cur["name"].k = "str" /\ nxt["name"].k = "str")
    THEN Raise("TypeError")
    ELSE IF e2 # NoErr THEN Raise(e2)
    ELSE Ok(_gen_code("merge_next", "interval_pair",
                      PairUpdate(<<<<"index", Num(index)>>,
                                   <<"name", cur["name"]>>,
                                   <<"stop", cur["stop"]>>,
                                   <<"next_start", nxt["start"]>>,
                                   <<"next_name", nxt["name"]>>>>, TCols(1)),
                      <<<<"new_name", name>>,
                        <<"new_stop", None>>,
                        <<"new_next_start", None>>,
                        <<"new_next_name", None>>>> \o OCols(1)))

(* kwargs is the dict of extra keyword arguments (new_<c>, new_next_<c>).  *)
codegen_split(ls, index, new_sep, new_name, new_next_name, kwargs) ==
    LET e1 == FirstErr(<<ReadErr(ls, index, "name"), ReadErr(ls, index, "stop")>>)
    IN
    IF e1 # NoErr THEN Raise(e1)
    ELSE
    LET cur == PyGet(ls, index)
        cols == Columns(cur)
        e2 == FirstErr([i \in 1..Len(cols) |->
                          IF /\ InDict(kwargs, "new_" \o cols[i])
                             /\ InDict(kwargs, "new_next_" \o cols[i])
                          THEN NoErr ELSE "KeyError"])
        RECURSIVE TCols(_)
        TCols(i) == IF i > Len(cols) THEN <<>>
                    ELSE <<<<cols[i], cur[cols[i]]>>,
                           <<"next_" \o cols[i], None>>>> \o TCols(i + 1)
        RECURSIVE OCols(_)
        OCols(i) == IF i > Len(cols) THEN <<>>
                    ELSE <<<<"new_" \o cols[i], kwargs["new_" \o cols[i]]>>,
                           <<"new_next_" \o cols[i],
                             kwargs["new_next_" \o cols[i]]>>>> \o OCols(i + 1)
    IN
    IF e2 # NoErr THEN Raise(e2)
    ELSE Ok(_gen_code("split", "interval_pair",
                      PairUpdate(<<<<"index", Num(index)>>,
                                   <<"name", cur["name"]>>,
                                   <<"stop", cur["stop"]>>,
                                   <<"next_name", None>>,
                                   <<"next_start", None>>>>, TCols(1)),
                      <<<<"new_name",
                          IF new_name = None THEN cur["name"] ELSE new_name>>,
                        <<"new_stop", new_sep>>,
                        <<"new_next_start", new_sep>>,
                        <<"new_next_name",
                          IF new_next_name = None THEN Str("") ELSE new_next_name>>>>
                      \o OCols(1)))

DictPairs(d) ==
    LET ks == KeysOf(d)
    IN  [i \in 1..Len(ks) |-> <<ks[i], d[ks[i]]>>]

codegen_delete(ls, index) ==
    IF ~PyInRange(ls, index) THEN Raise("IndexError")
    ELSE Ok(_gen_code("delete", "interval",
                      PairUpdate(<<<<"index", Num(index)>>>>,
                                 DictPairs(PyGet(ls, index))),
                      <<>>))

(* kwargs: the dict of the other column values (stop, name, ...).          *)
codegen_create(ls, index, start, kwargs) ==
    Ok(_gen_code("create", "interval",
                 PairUpdate(<<<<"index", Num(index)>>, <<"start", start>>>>,
                            DictPairs(kwargs)),
                 <<>>))

---------------------------------------------------------------------------
(* Raw operations.  Each takes the label list, the evaluated target dict  *)
(* and the remaining keyword arguments, and returns [err, labels]: the    *)
(* exception raised (or NoErr) and the label list as the call left it.    *)

Done(ls) == [err |-> NoErr, labels |-> ls]
Fail(e, ls) == [err |-> e, labels |-> ls]

(* The exception of labels[target['index']], or NoErr.                     *)
IndexErr(ls, target) ==
    IF ~InDict(target, "index") THEN "KeyError"
    ELSE IF ~IsNum(target["index"]) THEN "TypeError"
    ELSE IF ~PyInRange(ls, target["index"].n) THEN "IndexError"
    ELSE NoErr

_set_value(ls, target, column, kwargs) ==
    IF IndexErr(ls, target) # NoErr THEN Fail(IndexErr(ls, target), ls)
    ELSE
    LET index == target["index"].n
    IN  IF ~InDict(PyGet(ls, index), column) THEN Fail("KeyError", ls)
        ELSE IF ~InDict(kwargs, "new_" \o column) THEN Fail("KeyError", ls)
        ELSE Done(PySet(ls, index,
                        DictSet(PyGet(ls, index), column, kwargs["new_" \o column])))

_merge_next(ls, target, kwargs) ==
    IF ~InDict(target, "index") THEN Fail("KeyError", ls)
    ELSE IF ~IsNum(target["index"]) THEN Fail("TypeError", ls)
    ELSE
    LET index == target["index"].n
    IN  IF ~PyInRange(ls, index + 1) THEN Fail("IndexError", ls)
        ELSE IF ~InDict(PyGet(ls, index + 1), "stop") THEN Fail("KeyError", ls)
        ELSE IF ~PyInRange(ls, index) THEN Fail("IndexError", ls)
        ELSE
        LET ls1 == PySet(ls, index,
                         DictSet(PyGet(ls, index), "stop", PyGet(ls, index + 1)["stop"]))
        IN  IF ~InDict(kwargs, "new_name") THEN Fail("KeyError", ls1)
            ELSE
            LET ls2 == PySet(ls1, index,
                             DictSet(PyGet(ls1, index), "name", kwargs["new_name"]))
            IN  Done(PyPop(ls2, index + 1))

(* The keys of kwargs that _split applies to the new point / the original. *)
NextKeys(kwargs) == {key \in DOMAIN kwargs : Slice(key, 0, 9) = "new_next_"}
NewKeys(kwargs) ==
    {key \in DOMAIN kwargs : Slice(key, 0, 9) # "new_next_" /\ Slice(key, 0, 4) = "new_"}

(* The label with kwargs[key] written to field strip(key) for each key.   *)
ApplyKeys(label, kwargs, keys, strip) ==
    LET fields == {Slice(key, strip, Len(key)) : key \in keys}
    IN  [f \in (DOMAIN label) \cup fields |->
            IF f \in fields
            THEN kwargs[CHOOSE key \in keys : Slice(key, strip, Len(key)) = f]
            ELSE label[f]]

(* A variant of the guard of _split that accepts a split point on the     *)
(* limits of the interval.                                                *)
SplitGuardErr_inclusive(ls, target, kwargs) ==
    IF ~InDict(kwargs, "new_stop") THEN "KeyError"
    ELSE IF IndexErr(ls, target) # NoErr THEN IndexErr(ls, target)
    ELSE
    LET cur == PyGet(ls, target["index"].n)
    IN  IF ~InDict(cur, "start") THEN "KeyError"
        ELSE IF ~(IsNum(kwargs["new_stop"]) /\ IsNum(cur["start"])) THEN "TypeError"
        ELSE IF ~(kwargs["new_stop"].n >= cur["start"].n) THEN "ValueError"
        ELSE IF ~InDict(kwargs, "new_next_start") THEN "KeyError"
        ELSE IF ~InDict(cur, "stop") THEN "KeyError"
        ELSE IF ~(IsNum(kwargs["new_next_start"]) /\ IsNum(cur["stop"])) THEN "TypeError"
        ELSE IF ~(kwargs["new_next_start"].n <= cur["stop"].n) THEN "ValueError"
        ELSE NoErr

SplitGuardErr(ls, target, kwargs) ==
    IF ~InDict(kwargs, "new_stop") THEN "KeyError"
    ELSE IF IndexErr(ls, target) # NoErr THEN IndexErr(ls, target)
    ELSE
    LET cur == PyGet(ls, target["index"].n)
    IN  IF ~InDict(cur, "start") THEN "KeyError"
        ELSE IF ~(IsNum(kwargs["new_stop"]) /\ IsNum(cur["start"])) THEN "TypeError"
        ELSE IF ~(kwargs["new_stop"].n > cur["start"].n) THEN "ValueError"
        ELSE IF ~InDict(kwargs, "new_next_start") THEN "KeyError"
        ELSE IF ~InDict(cur, "stop") THEN "KeyError"
        ELSE IF ~(IsNum(kwargs["new_next_start"]) /\ IsNum(cur["stop"])) THEN "TypeError"
        ELSE IF ~(kwargs["new_next_start"].n < cur["stop"].n) THEN "ValueError"
        ELSE NoErr

_split(ls, target, kwargs) ==
    IF SplitGuardErr(ls, target, kwargs) # NoErr
    THEN Fail(SplitGuardErr(ls, target, kwargs), ls)
    ELSE
    LET index == target["index"].n
        cur == PyGet(ls, index)
        new_point == ApplyKeys(cur, kwargs, NextKeys(kwargs), 9)
        ls1 == PySet(ls, index, ApplyKeys(cur, kwargs, NewKeys(kwargs), 4))
    IN  Done(PyInsert(ls1, index + 1, new_point))

_delete(ls, target, kwargs) ==
    IF IndexErr(ls, target) # NoErr THEN Fail(IndexErr(ls, target), ls)
    ELSE Done(PyPop(ls, target["index"].n))

(* A variant of _create that leaves index in the new record.              *)
_create_keeps_index(ls, target, kwargs) ==
    IF ~InDict(target, "index") THEN Fail("KeyError", ls)
    ELSE IF ~({"start", "stop", "name"} \subseteq DOMAIN target) THEN Fail("KeyError", ls)
    ELSE IF ~IsNum(target["index"]) THEN Fail("TypeError", ls)
    ELSE Done(PyInsert(ls, target["index"].n, target))

_create(ls, target, kwargs) ==
    IF ~InDict(target, "index") THEN Fail("KeyError", ls)
    ELSE IF ~({"start", "stop", "name"} \subseteq DOMAIN target) THEN Fail("KeyError", ls)
    ELSE IF ~IsNum(target["index"]) THEN Fail("TypeError", ls)
    ELSE Done(PyInsert(ls, target["index"].n, DictDel(target, {"index"})))

---------------------------------------------------------------------------
(* invert.  INVERSE_TABLE maps an operation to its inverse; invert swaps,  *)
(* in place, every new_<field> value of s_expr with the value that follows *)
(* the first element of target equal to <field>, and returns a new list    *)
(* headed by the inverse operation.  The result is [err, inv, arg]: the    *)
(* exception (or NoErr), the returned list and the argument as mutated.    *)

INVERSE_TABLE ==
    [set_name |-> "set_name", set_start |-> "set_start", set_stop |-> "set_stop",
     merge_next |-> "split", split |-> "merge_next",
     delete |-> "create", create |-> "delete"]

(* The loop of invert over the positions i..Len(s_expr) of s_expr.         *)
RECURSIVE InvertLoop(_, _, _)
InvertLoop(i, s_expr, target) ==
    IF i > Len(s_expr) THEN [err |-> NoErr, s_expr |-> s_expr, target |-> target]
    ELSE IF ~(IsKeyArg(s_expr[i]) /\ Slice(s_expr[i].s, 0, 4) = "new_")
    THEN InvertLoop(i + 1, s_expr, target)
    ELSE
    LET oldname == Slice(s_expr[i].s, 4, Len(s_expr[i].s))
        pos == ListIndex(target, oldname)
    IN  IF pos = 0 THEN [err |-> "ValueError", s_expr |-> s_expr, target |-> target]
        ELSE IF pos + 1 > Len(target) \/ i + 1 > Len(s_expr)
        THEN [err |-> "IndexError", s_expr |-> s_expr, target |-> target]
        ELSE InvertLoop(i + 1,
                        [s_expr EXCEPT ![i + 1] = target[pos + 1]],
                        [target EXCEPT ![pos + 1] = s_expr[i + 1]])

(* A variant of invert that renames the operation and swaps no value.    *)
invert_head_only(s_expr) ==
    IF Len(s_expr) = 0 \/ IsList(s_expr[1]) \/ s_expr[1].s \notin DOMAIN INVERSE_TABLE
    THEN [err |-> "KeyError", inv |-> <<>>, arg |-> s_expr]
    ELSE [err |-> NoErr,
          inv |-> <<Symbol(INVERSE_TABLE[s_expr[1].s])>> \o Tail(s_expr),
          arg |-> s_expr]

invert(s_expr) ==
    LET bad(e) == [err |-> e, inv |-> <<>>, arg |-> s_expr]
        ti == ListIndex(s_expr, "target")
    IN
    IF Len(s_expr) = 0 THEN bad("IndexError")
    ELSE IF IsList(s_expr[1]) THEN bad("TypeError")
    ELSE IF ~(IsStr(s_expr[1]) /\ s_expr[1].s \in DOMAIN INVERSE_TABLE)
    THEN bad("KeyError")
    ELSE IF ti = 0 THEN bad("ValueError")
    ELSE IF ti + 1 > Len(s_expr) THEN bad("IndexError")
    ELSE IF ~IsList(s_expr[ti + 1]) THEN bad("TypeError")
    ELSE
    LET r == InvertLoop(1, s_expr, s_expr[ti + 1].l)
        arg == [r.s_expr EXCEPT ![ti + 1] = List(r.target)]
    IN  IF r.err # NoErr THEN [err |-> r.err, inv |-> <<>>, arg |-> arg]
        ELSE [err |-> NoErr,
              inv |-> <<Symbol(INVERSE_TABLE[s_expr[1].s])>> \o Tail(arg),
              arg |-> arg]

---------------------------------------------------------------------------
(* The evaluator.                                                         *)

(* The names make_env binds.                                              *)
Primitives ==
    {"set_name", "set_start", "set_stop", "merge_next", "split", "delete", "create"}
make_env == Primitives \cup {"interval", "interval_pair", "labels"}

EvOk(ls, v) == [err |-> NoErr, labels |-> ls, val |-> v]
EvFail(e, ls) == [err |-> e, labels |-> ls, val |-> None]

(* The call of a primitive bound by make_env with kwargs.                      *)
CallPrimitive(name, kwargs, ls) ==
    IF ~InDict(kwargs, "target") THEN Fail("TypeError", ls)
    ELSE IF InDict(kwargs, "labels") /\ kwargs["labels"] # EnvObj("labels")
    THEN Fail("TypeError", ls)
    ELSE IF kwargs["target"].k # "dict" THEN Fail("TypeError", ls)
    ELSE
    LET target == kwargs["target"].d
        rest == DictDel(kwargs, {"labels", "target"})
    IN  CASE name = "set_name" -> _set_value(ls, target, "name", rest)
          [] name = "set_start" -> _set_value(ls, target, "start", rest)
          [] name = "set_stop" -> _set_value(ls, target, "stop", rest)
          [] name = "merge_next" -> _merge_next(ls, target, rest)
          [] name = "split" -> _split(ls, target, rest)
          [] name = "delete" -> _delete(ls, target, rest)
          [] OTHER -> _create(ls, target, rest)

(* The elements of expr[1:] in windows of two, the last padded with None. *)
_grouper(rest) ==
    [i \in 1..((Len(rest) + 1) \div 2) |->
        <<rest[2 * i - 1], IF 2 * i <= Len(rest) THEN rest[2 * i] ELSE None>>]

RECURSIVE evaluate(_, _)
evaluate(e, ls) ==
    IF IsSymbol(e)
    THEN IF e.s \in make_env THEN EvOk(ls, EnvObj(e.s)) ELSE EvFail("KeyError", ls)
    ELSE IF ~IsList(e) THEN EvOk(ls, e)
    ELSE IF Len(e.l) = 0 THEN EvFail("IndexError", ls)
    ELSE
    LET proc == evaluate(e.l[1], ls)
        pairs == _grouper(Tail(e.l))
        (* the dict comprehension: [err, labels, kwargs, strkeys] *)
        RECURSIVE Args(_, _, _, _)
        Args(i, cur, kwargs, strkeys) ==
            IF i > Len(pairs)
            THEN [err |-> NoErr, labels |-> cur, kwargs |-> kwargs, strkeys |-> strkeys]
            ELSE
            LET v == evaluate(pairs[i][2], cur)
                key == pairs[i][1]
            IN  IF v.err # NoErr
                THEN [err |-> v.err, labels |-> v.labels, kwargs |-> kwargs,
                      strkeys |-> strkeys]
                ELSE IF IsList(key)
                THEN [err |-> "TypeError", labels |-> v.labels, kwargs |-> kwargs,
                      strkeys |-> strkeys]
                ELSE IF IsStr(key)
                THEN Args(i + 1, v.labels, DictSet(kwargs, key.s, v.val), strkeys)
                ELSE Args(i + 1, v.labels, kwargs, FALSE)
    IN
    IF proc.err # NoErr THEN proc
    ELSE
    LET a == Args(1, proc.labels, <<>>, TRUE)
    IN  IF a.err # NoErr THEN EvFail(a.err, a.labels)
        ELSE IF proc.val.k # "env" \/ proc.val.s = "labels" \/ ~a.strkeys
        THEN EvFail("TypeError", a.labels)
        ELSE IF proc.val.s \in {"interval", "interval_pair"}
        THEN EvOk(a.labels, Dict(a.kwargs))
        ELSE LET r == CallPrimitive(proc.val.s, a.kwargs, a.labels)
             IN  [err |-> r.err, labels |-> r.labels, val |-> None]

---------------------------------------------------------------------------
(* Reverse parsing: deatomize, write_to_tokens, detokenize, deparse.      *)
(* Command text is a string; a token list is a sequence of strings.       *)

CharAt(s, i) == SubSeq(s, i, i)
Count(s, ch) == Cardinality({i \in 1..Len(s) : CharAt(s, i) = ch})

(* str.replace of one character by another.                               *)
RECURSIVE Replace(_, _, _)
Replace(s, a, b) ==
    IF s = "" THEN ""
    ELSE (IF Head(s) = a THEN b ELSE Head(s)) \o Replace(Tail(s), a, b)

Digits == <<"0", "1", "2", "3", "4", "5", "6", "7", "8", "9">>

(* str(n) of an int.                                                      *)
RECURSIVE NatToStr(_)
NatToStr(n) ==
    IF n < 10 THEN Digits[n + 1] ELSE NatToStr(n \div 10) \o Digits[(n % 10) + 1]

(* [err, tok]: the token of an atom.                                      *)
deatomize(a) ==
    IF a.k = "null" THEN [err |-> NoErr, tok |-> "null"]
    ELSE IF IsSymbol(a)
    THEN IF a.s = "" THEN [err |-> "IndexError", tok |-> ""]
         ELSE LET r == Head(a.s) \o Replace(Tail(a.s), "_", "-")
              IN  [err |-> NoErr, tok |-> IF IsKeyArg(a) THEN "#:" \o r ELSE r]
    ELSE IF a.k = "str" THEN [err |-> NoErr, tok |-> "\"" \o a.s \o "\""]
    ELSE IF a.k = "num"
    THEN [err |-> NoErr,
          tok |-> IF a.n < 0 THEN "-" \o NatToStr(-a.n) ELSE NatToStr(a.n)]
    ELSE [err |-> "ValueError", tok |-> ""]

(* [err, toks]: the flat token list of an s-expression.                   *)
RECURSIVE write_to_tokens(_)
write_to_tokens(ntl) ==
    LET RECURSIVE Body(_)
        Body(i) ==
            IF i > Len(ntl) THEN [err |-> NoErr, toks |-> <<>>]
            ELSE
            LET t == IF IsList(ntl[i]) THEN write_to_tokens(ntl[i].l)
                     ELSE LET d == deatomize(ntl[i])
                          IN  [err |-> d.err, toks |-> <<d.tok>>]
            IN  IF t.err # NoErr THEN [err |-> t.err, toks |-> <<>>]
                ELSE LET rest == Body(i + 1)
                     IN  [err |-> rest.err, toks |-> t.toks \o rest.toks]
        b == Body(1)
    IN  [err |-> b.err, toks |-> <<"(">> \o b.toks \o <<")">>]

detokenize(token_list) ==
    LET RECURSIVE Join(_, _)
        Join(i, cmd) ==
            IF i > Len(token_list) THEN cmd
            ELSE LET t == token_list[i]
                     sep == IF t # ")" /\ CharAt(cmd, Len(cmd)) # "(" THEN " " ELSE ""
                 IN  Join(i + 1, cmd \o sep \o t)
    IN  Join(2, token_list[1])

(* [err, text]: the command string of an s-expression.                    *)
deparse(s_expr) ==
    LET w == write_to_tokens(s_expr)
    IN  IF w.err # NoErr THEN [err |-> w.err, text |-> ""]
        ELSE [err |-> NoErr, text |-> detokenize(w.toks)]

---------------------------------------------------------------------------
(* The parser: tokenize, atomize, read_from_tokens, parse.                *)

(* cmd.split(): the maximal runs of non-blank characters.                 *)
StrSplit(cmd) ==
    LET n == Len(cmd)
        IsBlank(i) == CharAt(cmd, i) = " "
        starts == {i \in 1..n : ~IsBlank(i) /\ (i = 1 \/ IsBlank(i - 1))}
        EndOf(i) == CHOOSE j \in i..n :
                        /\ j = n \/ IsBlank(j + 1)
                        /\ \A k \in i..j : ~IsBlank(k)
        Nth(k) == CHOOSE i \in starts : Cardinality({j \in starts : j <= i}) = k
    IN  [k \in 1..Cardinality(starts) |-> SubSeq(cmd, Nth(k), EndOf(Nth(k)))]

tokenize(cmd) ==
    LET words == StrSplit(cmd)
        (* the first loop: rejoin the words of a quoted string *)
        RECURSIVE Second(_, _, _)
        Second(i, second_pass, in_string) ==
            IF i > Len(words) THEN second_pass
            ELSE
            LET token == words[i]
                num_quotes == Count(token, "\"")
                joined == [second_pass EXCEPT
                             ![Len(second_pass)] = @ \o " " \o token]
            IN  IF num_quotes % 2 = 1 /\ ~in_string
                THEN Second(i + 1, Append(second_pass, token), TRUE)
                ELSE IF num_quotes % 2 = 1 /\ in_string
                THEN Second(i + 1, joined, FALSE)
                ELSE IF num_quotes = 0 /\ in_string
                THEN Second(i + 1, joined, TRUE)
                ELSE Second(i + 1, Append(second_pass, token), in_string)
        second == Second(1, <<>>, FALSE)
        (* the second loop: split off the parentheses *)
        RECURSIVE Third(_)
        Third(i) ==
            IF i > Len(second) THEN <<>>
            ELSE
            LET token == second[i]
                ct == Count(token, ")")
            IN  (IF Head(token) = "("
                 THEN <<"(">> \o (IF Len(token) > 1 THEN <<Tail(token)>> ELSE <<>>)
                 ELSE IF CharAt(token, Len(token)) = ")"
                 THEN <<SubSeq(token, 1, Len(token) - ct)>> \o [j \in 1..ct |-> ")"]
                 ELSE <<token>>)
                \o Third(i + 1)
    IN  Third(1)

IsIntText(t) ==
    LET body == IF t # "" /\ Head(t) = "-" THEN Tail(t) ELSE t
    IN  body # "" /\ \A i \in 1..Len(body) : \E d \in 1..10 : Digits[d] = CharAt(body, i)
RECURSIVE StrToNat(_)
StrToNat(t) ==
    IF t = "" THEN 0
    ELSE 10 * StrToNat(SubSeq(t, 1, Len(t) - 1))
         + ((CHOOSE d \in 1..10 : Digits[d] = CharAt(t, Len(t))) - 1)

(* [err, val]: the atom of a token.  Times are integers in this model, so *)
(* no token it produces is a float literal and float(token) always fails. *)
atomize(token) ==
    IF token = "" THEN [err |-> "IndexError", val |-> None]
    ELSE IF Head(token) = "\""
    THEN [err |-> NoErr, val |-> Str(SubSeq(token, 2, Len(token) - 1))]
    ELSE IF token = "null" THEN [err |-> NoErr, val |-> None]
    ELSE IF IsIntText(token)
    THEN [err |-> NoErr,
          val |-> Num(IF Head(token) = "-" THEN 0 - StrToNat(Tail(token))
                      ELSE StrToNat(token))]
    ELSE LET t == Head(token) \o Replace(Tail(token), "-", "_")
         IN  IF Slice(t, 0, 2) = "#:"
             THEN [err |-> NoErr, val |-> KeyArg(SubSeq(t, 3, Len(t)))]
             ELSE [err |-> NoErr, val |-> Symbol(t)]

(* [err, val, rest]: the s-expression read from the front of token_list   *)
(* and the tokens left.                                                   *)
RECURSIVE read_from_tokens(_)
read_from_tokens(token_list) ==
    IF Len(token_list) = 0 THEN [err |-> "SyntaxError", val |-> None, rest |-> <<>>]
    ELSE
    LET token == Head(token_list)
        RECURSIVE Nested(_, _)
        Nested(toks, nested_list) ==
            IF Len(toks) = 0
            THEN [err |-> "IndexError", val |-> None, rest |-> <<>>]
            ELSE IF Head(toks) = ")"
            THEN [err |-> NoErr, val |-> List(nested_list), rest |-> Tail(toks)]
            ELSE LET r == read_from_tokens(toks)
                 IN  IF r.err # NoErr THEN r
                     ELSE Nested(r.rest, Append(nested_list, r.val))
    IN  IF token = "(" THEN Nested(Tail(token_list), <<>>)
        ELSE IF token = ")"
        THEN [err |-> "SyntaxError", val |-> None, rest |-> Tail(token_list)]
        ELSE LET a == atomize(token)
             IN  [err |-> a.err, val |-> a.val, rest |-> Tail(token_list)]

(* [err, val]: the s-expression of a command string.                      *)
parse(cmd) ==
    LET r == read_from_tokens(tokenize(cmd))
    IN  [err |-> r.err, val |-> r.val]

---------------------------------------------------------------------------
(* CorrectionStack.  A stack state is [labels, undo_stack, redo_stack];   *)
(* each method returns the state it leaves, the exception it raised (or   *)
(* NoErr) and its return value.  A deque is a sequence, its right end     *)
(* last.                                                                  *)

State(ls, us, rs) == [labels |-> ls, undo_stack |-> us, redo_stack |-> rs]
Returns(ls, us, rs, e, r) ==
    [labels |-> ls, undo_stack |-> us, redo_stack |-> rs, err |-> e, ret |-> r]
Unchanged(S, e) == Returns(S.labels, S.undo_stack, S.redo_stack, e, None)
StateOf(R) == State(R.labels, R.undo_stack, R.redo_stack)

_apply(ls, s_expr) == evaluate(List(s_expr), ls)

Front(q) == SubSeq(q, 1, Len(q) - 1)
Last(q) == q[Len(q)]

(* A variant of undo that drops the undone commands when nothing is       *)
(* applied.                                                               *)
undo_drops_redo(S) ==
    IF S.undo_stack = <<>> THEN Returns(S.labels, <<>>, <<>>, "IndexError", None)
    ELSE
    LET i == invert(Last(S.undo_stack))
    IN  IF i.err # NoErr
        THEN Returns(S.labels, Front(S.undo_stack), S.redo_stack, i.err, None)
        ELSE LET a == _apply(S.labels, i.inv)
             IN  Returns(a.labels, Front(S.undo_stack), Append(S.redo_stack, i.inv),
                         a.err, None)

undo(S) ==
    IF S.undo_stack = <<>> THEN Unchanged(S, "IndexError")
    ELSE
    LET i == invert(Last(S.undo_stack))
    IN  IF i.err # NoErr
        THEN Returns(S.labels, Front(S.undo_stack), S.redo_stack, i.err, None)
        ELSE LET a == _apply(S.labels, i.inv)
             IN  Returns(a.labels, Front(S.undo_stack), Append(S.redo_stack, i.inv),
                         a.err, None)

redo(S) ==
    IF S.redo_stack = <<>> THEN Unchanged(S, "IndexError")
    ELSE
    LET i == invert(Last(S.redo_stack))
    IN  IF i.err # NoErr
        THEN Returns(S.labels, S.undo_stack, Front(S.redo_stack), i.err, None)
        ELSE LET a == _apply(S.labels, i.inv)
             IN  Returns(a.labels, Append(S.undo_stack, i.inv), Front(S.redo_stack),
                         a.err, None)

(* A variant of push that keeps the undone commands.                      *)
push_keeps_redo(S, cmd) ==
    LET a == _apply(S.labels, cmd)
    IN  Returns(a.labels, Append(S.undo_stack, cmd), S.redo_stack, a.err, None)

push(S, cmd) ==
    LET a == _apply(S.labels, cmd)
    IN  Returns(a.labels, Append(S.undo_stack, cmd), <<>>, a.err, None)

peek(S, index) ==
    IF ~PyInRange(S.undo_stack, index) THEN Unchanged(S, "IndexError")
    ELSE Returns(S.labels, S.undo_stack, S.redo_stack, NoErr,
                 List(PyGet(S.undo_stack, index)))

(* An intent method: generate the command, then push it.                  *)
Intent(S, g) == IF g.err # NoErr THEN Unchanged(S, g.err) ELSE push(S, g.cmd)

rename(S, index, new_name) == Intent(S, codegen_rename(S.labels, index, new_name))
set_start(S, index, new_start) ==
    Intent(S, codegen_set_start(S.labels, index, new_start))
set_stop(S, index, new_stop) == Intent(S, codegen_set_stop(S.labels, index, new_stop))
merge_next(S, index, new_name) ==
    Intent(S, codegen_merge_next(S.labels, index, new_name))
split(S, index, new_sep, new_name, new_next_name) ==
    Intent(S, codegen_split(S.labels, index, new_sep, new_name, new_next_name, <<>>))
delete(S, index) == Intent(S, codegen_delete(S.labels, index))
create(S, index, start, kwargs) ==
    Intent(S, codegen_create(S.labels, index, start, kwargs))

---------------------------------------------------------------------------
(* The engine as a state machine: one action per public method.           *)

Label(start, stop, name) ==
    [start |-> Num(start), stop |-> Num(stop), name |-> Str(name)]
Tiered(start, stop, name, tier) ==
    [start |-> Num(start), stop |-> Num(stop), name |-> Str(name), tier |-> Str(tier)]

Indexed(start, stop, name, index) ==
    [start |-> Num(start), stop |-> Num(stop), name |-> Str(name),
     index |-> Num(index)]

(* The label lists an engine is constructed over.                         *)
InitLabels ==
    { <<Label(0, 2, "a"), Label(2, 4, "b"), Label(4, 6, "c")>>,
      <<Tiered(0, 2, "a", "f"), Tiered(2, 4, "b", "m")>>,
      <<Label(0, 2, "a"), Tiered(2, 4, "b", "m")>>,
      <<Indexed(0, 2, "a", 0), Indexed(2, 4, "b", 1)>> }

(* The arguments the methods are called with.                             *)
Names == {"q", "stop"}
KwPlain == [stop |-> Num(3), name |-> Str("q")]
KwTier == [stop |-> Num(3), name |-> Str("q"), tier |-> Str("f")]

S == State(labels, undo_stack, redo_stack)

(* The SHA-1 digest of repr(labels): a value that is equal for equal      *)
(* label lists only.                                                      *)
_make_label_hash(ls) == [sha1 |-> ls]

(* The operations file and its .yaml companion; neither exists before the *)
(* first write.                                                           *)
Disk(has_ops, ops, has_yaml, yaml) ==
    [has_ops |-> has_ops, ops |-> ops, has_yaml |-> has_yaml, yaml |-> yaml]
NoDisk == Disk(FALSE, <<>>, FALSE,
              [uuid |-> "", label_hash |-> _make_label_hash(<<>>)])

(* A CorrectionStack object with its attributes.                          *)
Engine(ls, us, rs, u, h) ==
    [labels |-> ls, file |-> Str("corrections"), undo_stack |-> us, redo_stack |-> rs,
     uuid |-> u, label_hash |-> h]
Raised(E, e) == [engine |-> E, err |-> e]

(* str.strip(): the text without its leading and trailing blanks.         *)
Strip(s) ==
    LET solid == {i \in 1..Len(s) : CharAt(s, i) # " "}
    IN  IF solid = {} THEN ""
        ELSE SubSeq(s, CHOOSE i \in solid : \A j \in solid : i <= j,
                       CHOOSE i \in solid : \A j \in solid : j <= i)

(* The loop of read_from_file over the lines of the operations file, from *)
(* line i on: [err, labels, undo_stack].  A line is kept without its      *)
(* newline, so the line "\n" is the empty string.                         *)
(* The element of a set of one element.                                   *)
The(set) == CHOOSE x \in set : TRUE

RECURSIVE ReadOps(_, _, _, _, _)

(* The command p.val of line i was applied (a) when apply is set: it is   *)
(* appended unless applying it raised.                                    *)
Applied(lines, i, us, apply, p, a) ==
    IF a.err # NoErr THEN [err |-> a.err, labels |-> a.labels, undo_stack |-> us]
    ELSE ReadOps(lines, i + 1, a.labels, Append(us, p.val.l), apply)

(* A variant of ReadLine that never applies the command.                  *)
ReadLine_never_applies(lines, i, ls, us, apply, p) ==
    IF p.err # NoErr THEN [err |-> p.err, labels |-> ls, undo_stack |-> us]
    ELSE Applied(lines, i, us, apply, p, EvOk(ls, None))

(* Line i was parsed to p.                                                *)
ReadLine(lines, i, ls, us, apply, p) ==
    IF p.err # NoErr THEN [err |-> p.err, labels |-> ls, undo_stack |-> us]
    ELSE The({Applied(lines, i, us, apply, p, a) :
                a \in {IF apply THEN evaluate(p.val, ls) ELSE EvOk(ls, None)}})

ReadOps(lines, i, ls, us, apply) ==
    IF i > Len(lines) THEN [err |-> NoErr, labels |-> ls, undo_stack |-> us]
    ELSE IF lines[i] = "" THEN ReadOps(lines, i + 1, ls, us, apply)
    ELSE The({ReadLine(lines, i, ls, us, apply, p) :
                p \in {parse(Strip(lines[i]))}})

(* The operations file was read (r); the metadata follow.                 *)
ReadMeta(E, dk, r) ==
    IF r.err # NoErr
    THEN Raised(Engine(r.labels, r.undo_stack, <<>>, E.uuid, E.label_hash), r.err)
    ELSE IF ~dk.has_yaml
    THEN Raised(Engine(r.labels, r.undo_stack, <<>>, E.uuid, E.label_hash),
                "FileNotFoundError")
    ELSE Raised(Engine(r.labels, r.undo_stack, <<>>, dk.yaml.uuid,
                       dk.yaml.label_hash), NoErr)

(* read_from_file on the object E with the files dk: the object it leaves *)
(* and the exception raised.                                              *)
read_from_file(E, dk, apply) ==
    IF ~dk.has_ops THEN Raised(E, "FileNotFoundError")
    ELSE The({ReadMeta(E, dk, r) : r \in {ReadOps(dk.ops, 1, E.labels, <<>>, apply)}})

(* The loop of write_to_file over the applied commands: [err, lines].     *)
RECURSIVE WriteOps(_, _, _)
WriteOps(us, i, lines) ==
    IF i > Len(us) THEN [err |-> NoErr, lines |-> lines]
    ELSE LET d == deparse(us[i])
         IN  IF d.err # NoErr THEN [err |-> d.err, lines |-> lines]
             ELSE WriteOps(us, i + 1, Append(lines, d.text))

(* The operations file was written (w); the metadata follow.              *)
WriteMeta(E, dk, w) ==
    IF w.err # NoErr
    THEN [disk |-> Disk(TRUE, w.lines, dk.has_yaml, dk.yaml), err |-> w.err]
    ELSE [disk |-> Disk(TRUE, w.lines, TRUE,
                        [uuid |-> E.uuid, label_hash |-> E.label_hash]),
          err |-> NoErr]

(* write_to_file: the files it leaves and the exception raised.           *)
write_to_file(E, dk) ==
    The({WriteMeta(E, dk, w) : w \in {WriteOps(E.undo_stack, 1, <<>>)}})

(* The constructor over the caller's labels ls; u is the identifier uuid4 *)
(* draws.  With load the stacks and the metadata come from the files, and *)
(* an exception of read_from_file leaves no object.                       *)
__init__(ls, dk, load, apply, u) ==
    IF load
    THEN read_from_file(Engine(ls, <<>>, <<>>, "", _make_label_hash(<<>>)), dk, apply)
    ELSE Raised(Engine(ls, <<>>, <<>>, u, _make_label_hash(ls)), NoErr)

(* An attribute of a CorrectionStack object: [err, val].                  *)
getattr(E, name) ==
    IF name \in DOMAIN E THEN [err |-> NoErr, val |-> E[name]]
    ELSE [err |-> "AttributeError", val |-> None]

Op(name, index) == [name |-> name, index |-> index]

(* A call with further arguments.                                         *)
OpWith(name, index, args) == [name |-> name, index |-> index, args |-> args]

(* An entry of hist: the call o raised e (or NoErr) and left the labels ls. *)
Called(o, e, ls) == [op |-> o, err |-> e, labels |-> ls]

(* The method named by o was called and returned (or raised) R.  op, err  *)
(* and ret describe the last call, prev is the engine before it, and hist *)
(* lists the construction and every call since.                           *)
Call(o, R) ==
    /\ labels' = R.labels
    /\ undo_stack' = R.undo_stack
    /\ redo_stack' = R.redo_stack
    /\ err' = R.err
    /\ ret' = R.ret
    /\ op' = o
    /\ prev' = S
    /\ hist' = Append(hist, Called(o, R.err, R.labels))
    /\ steps' = steps + 1
    /\ UNCHANGED <<expr, text, tree, uuid, label_hash, disk>>

Rename ==
    /\ steps < MaxSteps
    /\ \E a \in {<<0, "q">>, <<0 - 1, "stop">>} :
           LET R == rename(S, a[1], Str(a[2]))
           IN  Call(Op("rename", a[1]), R)

SetStart ==
    /\ steps < MaxSteps
    /\ LET R == set_start(S, 0, Num(2))
       IN  Call(Op("set_start", 0), R)

SetStop ==
    /\ steps < MaxSteps
    /\ LET R == set_stop(S, 1, Num(5))
       IN  Call(Op("set_stop", 1), R)

MergeNext ==
    /\ steps < MaxSteps
    /\ \E n \in {None, Str("stop")} :
           LET R == merge_next(S, 0, n)
           IN  Call(OpWith("merge_next", 0, [new_name |-> n]), R)

(* The point the engine's split is called with.                           *)
SplitAt == Num(1)

Split ==
    /\ steps < MaxSteps
    /\ LET R == split(S, 0, SplitAt, None, None)
       IN  Call(Op("split", 0), R)

Delete ==
    /\ steps < MaxSteps
    /\ \E i \in {0, 0 - 1} :
           LET R == delete(S, i)
           IN  Call(Op("delete", i), R)

(* The start the engine's create is called with.                          *)
CreateStart == Num(1)

Create ==
    /\ steps < MaxSteps
    /\ \E a \in {<<0, KwTier>>, <<1, KwPlain>>, <<Len(labels) + 1, KwPlain>>,
                  <<0, [name |-> Str("q")]>>} :
           LET R == create(S, a[1], CreateStart, a[2])
           IN  Call(OpWith("create", a[1], a[2]), R)

Undo ==
    /\ steps < MaxSteps
    /\ LET R == undo(S)
       IN  Call(Op("undo", 0), R)

Redo ==
    /\ steps < MaxSteps
    /\ LET R == redo(S)
       IN  Call(Op("redo", 0), R)

Peek ==
    /\ steps < MaxSteps
    /\ \E i \in {0 - 1, 0, Len(undo_stack)} :
           LET R == peek(S, i)
           IN  Call(Op("peek", i), R)

Init ==
    /\ labels \in InitLabels
    /\ undo_stack = <<>>
    /\ redo_stack = <<>>
    /\ err = NoErr
    /\ ret = None
    /\ op = Op("init", 0)
    /\ prev = State(labels, <<>>, <<>>)
    /\ hist = <<Called(Op("init", 0), NoErr, labels)>>
    /\ steps = 0
    /\ expr = <<>>
    /\ text = ""
    /\ tree = None
    /\ uuid = "u1"
    /\ label_hash = _make_label_hash(labels)
    /\ disk = NoDisk

Next ==
    \/ Rename \/ SetStart \/ SetStop \/ MergeNext \/ Split \/ Delete \/ Create
    \/ Undo \/ Redo \/ Peek

Spec == Init /\ [][Next]_vars

---------------------------------------------------------------------------
(* The engine with its files: the methods of the engine, write_to_file,   *)
(* read_from_file, and the construction of an engine from the files.      *)

E == Engine(labels, undo_stack, redo_stack, uuid, label_hash)

(* The entry of hist for a read: the labels it was given, apply, and the  *)
(* lines of the operations file.                                          *)
Read(o, e, ls, given, apply) ==
    [op |-> o, err |-> e, labels |-> ls, given |-> given, apply |-> apply,
     lines |-> disk.ops]

(* The engine becomes R.engine after the call o.                          *)
Becomes(o, R, entry) ==
    /\ labels' = R.engine.labels
    /\ undo_stack' = R.engine.undo_stack
    /\ redo_stack' = R.engine.redo_stack
    /\ uuid' = R.engine.uuid
    /\ label_hash' = R.engine.label_hash
    /\ err' = R.err
    /\ ret' = None
    /\ op' = o
    /\ prev' = S
    /\ hist' = Append(hist, entry)
    /\ steps' = steps + 1
    /\ UNCHANGED <<expr, text, tree, disk>>

WriteToFile ==
    /\ steps < MaxSteps
    /\ \E w \in {write_to_file(E, disk)} :
           /\ disk' = w.disk
           /\ err' = w.err
           /\ ret' = None
           /\ op' = Op("write_to_file", 0)
           /\ prev' = S
           /\ hist' = Append(hist,
                     [op |-> Op("write_to_file", 0), err |-> w.err,
                      labels |-> labels, undo_stack |-> undo_stack,
                      redo_stack |-> redo_stack, uuid |-> uuid,
                      label_hash |-> label_hash])
           /\ steps' = steps + 1
           /\ UNCHANGED <<labels, undo_stack, redo_stack, uuid, label_hash,
                          expr, text, tree>>

(* read_from_file called on the engine.                                   *)
ReadFromFile ==
    /\ steps < MaxSteps
    /\ \E apply \in BOOLEAN :
           \E R \in {read_from_file(E, disk, apply)} :
               Becomes(Op("read_from_file", 0), R,
                       Read(Op("read_from_file", 0), R.err, R.engine.labels,
                            labels, apply))

(* An engine is constructed from the files: with apply over the labels    *)
(* the engine was first made for or over its present labels, without      *)
(* apply over its present labels.  It takes the place of the engine       *)
(* unless the constructor raises.                                         *)
Load ==
    /\ steps < MaxSteps
    /\ \E a \in {<<TRUE, hist[1].labels>>, <<TRUE, labels>>, <<FALSE, labels>>} :
           \E R \in {__init__(a[2], disk, TRUE, a[1], uuid)} :
           \E K \in {IF R.err = NoErr THEN R ELSE Raised(E, R.err)} :
               Becomes(Op("load", 0), K,
                       Read(Op("load", 0), K.err, K.engine.labels, a[2], a[1]))

(* The label lists of the engines that are written and read.              *)
FileLabels ==
    { <<Label(0, 2, "a"), Label(2, 4, "b"), Label(4, 6, "c")>>,
      <<Label(0, 2, "a  b"), Label(2, 4, "b")>> }

(* The files an earlier engine over ls left: it merged the first two      *)
(* records, renamed the result and was written.                           *)
EarlierDisk(ls) ==
    LET merged == merge_next(State(ls, <<>>, <<>>), 0, None)
        renamed == rename(StateOf(merged), 0, Str("q"))
    IN  write_to_file(Engine(renamed.labels, renamed.undo_stack, <<>>, "u0",
                             _make_label_hash(ls)), NoDisk).disk

FileInit ==
    /\ labels \in FileLabels
    /\ undo_stack = <<>>
    /\ redo_stack = <<>>
    /\ err = NoErr
    /\ ret = None
    /\ op = Op("init", 0)
    /\ prev = State(labels, <<>>, <<>>)
    /\ hist = <<Called(Op("init", 0), NoErr, labels)>>
    /\ steps = 0
    /\ expr = <<>>
    /\ text = ""
    /\ tree = None
    /\ uuid \in {"u1", "u2"}
    /\ label_hash = _make_label_hash(labels)
    /\ disk \in {NoDisk, EarlierDisk(labels)}

FileNext ==
    \/ Rename \/ MergeNext \/ Undo \/ Redo
    \/ WriteToFile \/ ReadFromFile \/ Load

FileSpec == FileInit /\ [][FileNext]_vars

---------------------------------------------------------------------------
(* The raw operations as a state machine: one of the operations make_env  *)
(* binds is called once, with keyword arguments kw (expr), on the labels. *)

PrimLabels ==
    InitLabels
    \cup { <<[start |-> Num(0), stop |-> Num(2)], Label(2, 4, "b")>>,
           <<Label(0, 4, "a")>>,
           <<>> }

(* The keyword arguments of a call: labels, target and the rest.          *)
Kw(target, rest) ==
    [x \in {"labels", "target"} \cup DOMAIN rest |->
        IF x = "labels" THEN EnvObj("labels")
        ELSE IF x = "target" THEN Dict(target)
        ELSE rest[x]]

(* The targets of the calls on ls: an index at or past either end, and a  *)
(* target without index.                                                  *)
Targets(ls) == {[index |-> Num(i)] : i \in {0 - 1, 0, Len(ls) - 1, Len(ls)}} \cup {<<>>}

SplitArgs ==
    {[new_stop |-> Num(a), new_next_start |-> Num(b), new_name |-> Str("x"),
      new_next_name |-> Str("y")] : a, b \in 0..4}
    \cup {[new_stop |-> Num(1)], <<>>}

CreateTargets ==
    {[index |-> Num(i), start |-> Num(1), stop |-> Num(3), name |-> Str("q")] :
        i \in {0 - 1, 0, 1, 5}}
    \cup {[index |-> Num(0), start |-> Num(1), stop |-> Num(3), name |-> Str("q"),
           tier |-> Str("f")],
          [index |-> Num(0), start |-> Num(1), name |-> Str("q")],
          [start |-> Num(1), stop |-> Num(3), name |-> Str("q")]}

PrimCall(name, kw) ==
    /\ op.name = "init"
    /\ \E R \in {CallPrimitive(name, kw, labels)} :
          /\ labels' = R.labels
          /\ err' = R.err
          /\ op' = Op(name, 0)
          /\ expr' = kw
          /\ prev' = S
          /\ hist' = Append(hist, Called(Op(name, 0), R.err, R.labels))
          /\ steps' = steps + 1
          /\ UNCHANGED <<undo_stack, redo_stack, ret, text, tree, uuid, label_hash,
                         disk>>

SetValue ==
    /\ op.name = "init"
    /\ \E name \in {"set_name", "set_start", "set_stop"}, t \in Targets(labels),
          rest \in {[new_name |-> Str("q")], [new_start |-> Num(1)],
                    [new_stop |-> Num(3)], <<>>} :
          PrimCall(name, Kw(t, rest))

MergeNextRaw ==
    /\ op.name = "init"
    /\ \E t \in Targets(labels), rest \in {[new_name |-> Str("q")], <<>>} :
          PrimCall("merge_next", Kw(t, rest))

SplitRaw ==
    /\ op.name = "init"
    /\ \E t \in Targets(labels), rest \in SplitArgs :
          PrimCall("split", Kw(t, rest))

DeleteRaw ==
    /\ op.name = "init"
    /\ \E t \in Targets(labels) :
          PrimCall("delete", Kw(t, <<>>))

CreateRaw ==
    /\ op.name = "init"
    /\ \E t \in CreateTargets :
          PrimCall("create", Kw(t, <<>>))

(* A call without target.                                                 *)
NoTarget ==
    /\ op.name = "init"
    /\ \E name \in Primitives :
          PrimCall(name, [labels |-> EnvObj("labels"), new_name |-> Str("q")])

PrimInit ==
    /\ labels \in PrimLabels
    /\ undo_stack = <<>>
    /\ redo_stack = <<>>
    /\ err = NoErr
    /\ ret = None
    /\ op = Op("init", 0)
    /\ prev = State(labels, <<>>, <<>>)
    /\ hist = <<Called(Op("init", 0), NoErr, labels)>>
    /\ steps = 0
    /\ expr = <<>>
    /\ text = ""
    /\ tree = None
    /\ uuid = "u1"
    /\ label_hash = _make_label_hash(labels)
    /\ disk = NoDisk

PrimNext == SetValue \/ MergeNextRaw \/ SplitRaw \/ DeleteRaw \/ CreateRaw \/ NoTarget

PrimSpec == PrimInit /\ [][PrimNext]_vars

---------------------------------------------------------------------------
(* The command language as a state machine: a code generator makes a      *)
(* command from the labels (expr); the command is written out (text) and  *)
(* read back (tree), or inverted (tree) and inverted again (tree).        *)

LangNames == {"a", "q", "a b", "a  b", "a)", "stop"}

LangLabels ==
    {<<Label(0, 2, n), Label(2, 4, "b")>> : n \in LangNames}
    \cup {<<Tiered(0, 2, "a", "f"), Tiered(2, 4, "b", "m")>>}

(* The calls of the code generators on the first record of ls.            *)
GenCalls(ls) ==
    {codegen_rename(ls, 0, Str(n)) : n \in LangNames}
    \cup {codegen_set_start(ls, 0, Num(1)), codegen_set_stop(ls, 0, Num(3))}
    \cup {codegen_merge_next(ls, 0, n) : n \in {None, Str("stop")}}
    \cup {codegen_split(ls, 0, Num(1), None, None, kw) :
              kw \in {<<>>, [new_tier |-> Str("f"), new_next_tier |-> Str("m")]}}
    \cup {codegen_delete(ls, 0)}
    \cup {codegen_create(ls, 0, Num(1), kw) : kw \in {KwPlain, KwTier}}

LangStep(o, e, x, t, r) ==
    /\ op' = Op(o, 0)
    /\ err' = e
    /\ expr' = x
    /\ text' = t
    /\ tree' = r
    /\ UNCHANGED <<labels, undo_stack, redo_stack, ret, prev, hist, steps,
                   uuid, label_hash, disk>>

Codegen ==
    /\ op.name = "init"
    /\ \E g \in GenCalls(labels) :
          /\ g.err = NoErr
          /\ LangStep("codegen", NoErr, g.cmd, "", None)

Deparse ==
    /\ op.name = "codegen"
    /\ LET d == deparse(expr)
       IN  LangStep("deparse", d.err, expr, d.text, None)

Parse ==
    /\ op.name = "deparse"
    /\ err = NoErr
    /\ LET p == parse(text)
       IN  LangStep("parse", p.err, expr, text, p.val)

Invert ==
    /\ op.name = "codegen"
    /\ LET i == invert(expr)
       IN  LangStep("invert", i.err, expr, "", List(i.inv))

InvertAgain ==
    /\ op.name = "invert"
    /\ err = NoErr
    /\ LET i == invert(tree.l)
       IN  LangStep("invert_again", i.err, expr, "", List(i.inv))

(* The command cmd with a name no environment binds in place of its head, *)
(* of the labels, of the head of its target and as one more argument,     *)
(* alone or after an argument that is itself a call of delete.            *)
Unbound(cmd) ==
    { [cmd EXCEPT ![1] = Symbol("frobnicate")],
      [cmd EXCEPT ![3] = Symbol("nolabels")],
      [cmd EXCEPT ![5] = List([@.l EXCEPT ![1] = Symbol("point")])],
      cmd \o <<KeyArg("extra"), Symbol("unbound")>>,
      cmd \o <<KeyArg("extra"),
               List(<<Symbol("delete"), KeyArg("labels"), Symbol("labels"),
                      KeyArg("target"),
                      List(<<Symbol("interval"), KeyArg("index"), Num(0)>>)>>),
               KeyArg("more"), Symbol("unbound")>> }

(* A generated command, or one with an unbound name, is evaluated over    *)
(* the labels.                                                            *)
Evaluate ==
    /\ op.name = "codegen"
    /\ \E c \in {expr} \cup Unbound(expr) :
       \E a \in {_apply(labels, c)} :
          /\ labels' = a.labels
          /\ err' = a.err
          /\ op' = Op("evaluate", 0)
          /\ expr' = c
          /\ UNCHANGED <<undo_stack, redo_stack, ret, prev, hist, steps, text,
                         tree, uuid, label_hash, disk>>

(* Command text that is not one complete form: a close parenthesis alone  *)
(* or before the text of a command, the text without its last             *)
(* parenthesis, the text cut inside or after its last word, a string      *)
(* whose quote is not closed, and no text.                                *)
Malformed(t) ==
    { ")", ") " \o t, SubSeq(t, 1, Len(t) - 1), SubSeq(t, 1, Len(t) - 2),
      "\"abc", "" }

(* Malformed text is parsed.                                              *)
ParseMalformed ==
    /\ op.name = "deparse"
    /\ err = NoErr
    /\ \E t \in Malformed(text) :
       \E p \in {parse(t)} :
          LangStep("parse_malformed", p.err, expr, t, p.val)

LangInit ==
    /\ labels \in LangLabels
    /\ undo_stack = <<>>
    /\ redo_stack = <<>>
    /\ err = NoErr
    /\ ret = None
    /\ op = Op("init", 0)
    /\ prev = State(labels, <<>>, <<>>)
    /\ hist = <<Called(Op("init", 0), NoErr, labels)>>
    /\ steps = 0
    /\ expr = <<>>
    /\ text = ""
    /\ tree = None
    /\ uuid = "u1"
    /\ label_hash = _make_label_hash(labels)
    /\ disk = NoDisk

LangNext ==
    \/ Codegen \/ Deparse \/ Parse \/ Invert \/ InvertAgain
    \/ Evaluate \/ ParseMalformed

LangSpec == LangInit /\ [][LangNext]_vars

---------------------------------------------------------------------------
(* Properties of the engine, checked under Spec.                          *)

IntentNames ==
    {"rename", "set_start", "set_stop", "merge_next", "split", "delete", "create"}

(* The indices of the existing records of ls, from the front.             *)
Existing(ls) == 0..(Len(ls) - 1)


(* The entry of hist k calls before the last one.                         *)
Ago(k) == hist[Len(hist) - k]

(* The commands the code generators make for the existing records of ls.  *)
Generated(ls) ==
    LET TimeArgs == {Num(t) : t \in 0..5}
        calls == UNION {
            {codegen_rename(ls, i, Str(n)) : n \in Names \cup {"name", ""}}
            \cup {codegen_set_start(ls, i, t) : t \in TimeArgs}
            \cup {codegen_set_stop(ls, i, t) : t \in TimeArgs}
            \cup {codegen_merge_next(ls, i, n) : n \in {None} \cup {Str(x) : x \in Names}}
            \cup {codegen_split(ls, i, t, None, None, <<>>) : t \in TimeArgs}
            \cup {codegen_delete(ls, i)}
            \cup {codegen_create(ls, i, Num(1), kw) : kw \in {KwPlain, KwTier}}
            : i \in Existing(ls)}
    IN  {g.cmd : g \in {x \in calls : x.err = NoErr}}

(* C1: in every reachable engine state, for every generated command C of  *)
(* an existing record whose push succeeds, push(C), undo(), redo() leave  *)
(* the labels equal to the labels right after push(C).                    *)
C1_PushUndoRedoRestores ==
    \A cmd \in Generated(labels) :
        LET P == push(S, cmd)
            U == undo(StateOf(P))
            R == redo(StateOf(U))
        IN  P.err = NoErr => R.labels = P.labels

(* C2: an undo() that follows a successful rename, set_start or set_stop  *)
(* of an existing record (counted from the front or from the end)         *)
(* succeeds and leaves the whole label list as it was before the          *)
(* operation: the field is back at its old value and nothing else has     *)
(* changed.                                                               *)
C2_UndoRestoresField ==
    (/\ Len(hist) >= 3
     /\ Ago(0).op.name = "undo"
     /\ Ago(1).op.name \in {"rename", "set_start", "set_stop"}
     /\ Ago(1).err = NoErr
     /\ Ago(1).op.index \in Existing(Ago(2).labels) \cup ((0 - Len(Ago(2).labels))..(0 - 1)))
    => (Ago(0).err = NoErr /\ labels = Ago(2).labels)

(* A rename, set_start or set_stop changed the labels and the undo() that *)
(* followed it put them back.                                             *)
C2_Witness ==
    /\ Len(hist) >= 3
    /\ Ago(0).op.name = "undo" /\ Ago(0).err = NoErr
    /\ Ago(1).op.name \in {"rename", "set_start", "set_stop"}
    /\ Ago(1).err = NoErr
    /\ Ago(1).labels # Ago(2).labels
    /\ labels = Ago(2).labels

(* C3: an undo() that follows a successful merge_next(i) or split(i, sep) *)
(* of an existing record succeeds and leaves the label list equal to the  *)
(* list before the operation, every field of every record included.       *)
C3_MergeSplitUndoRestores ==
    (/\ Len(hist) >= 3
     /\ Ago(0).op.name = "undo"
     /\ Ago(1).op.name \in {"merge_next", "split"}
     /\ Ago(1).err = NoErr
     /\ Ago(1).op.index \in Existing(Ago(2).labels))
    => (Ago(0).err = NoErr /\ labels = Ago(2).labels)

(* C4: an undo() that follows a successful delete(i) of an existing       *)
(* record succeeds and leaves the label list equal to the list before the *)
(* delete, extra fields included.                                         *)
C4_DeleteUndoRestores ==
    (/\ Len(hist) >= 3
     /\ Ago(0).op.name = "undo"
     /\ Ago(1).op.name = "delete"
     /\ Ago(1).err = NoErr
     /\ Ago(1).op.index \in Existing(Ago(2).labels))
    => (Ago(0).err = NoErr /\ labels = Ago(2).labels)

(* C5: in every reachable engine state that holds undone commands, the    *)
(* push of any generated command C leaves the applied commands followed   *)
(* by C as the log, C as the entry peek() shows, no undone command, and a *)
(* redo() after it changes nothing.                                       *)
C5_PushDiscardsRedo ==
    redo_stack # <<>> =>
        \A cmd \in Generated(labels) :
            LET P == push(S, cmd)
            IN  /\ P.undo_stack = Append(undo_stack, cmd)
                /\ P.redo_stack = <<>>
                /\ peek(StateOf(P), 0 - 1).ret = List(cmd)
                /\ StateOf(redo(StateOf(P))) = StateOf(P)

(* An intent method pushed its command on an engine that held undone      *)
(* commands, and none is left.                                            *)
C5_Witness ==
    /\ op.name \in IntentNames
    /\ err = NoErr
    /\ \E k \in 1..Len(hist) : hist[k].op.name = "undo"
    /\ prev.redo_stack # <<>>
    /\ redo_stack = <<>>
    /\ Front(undo_stack) = prev.undo_stack

(* undo() was called with nothing applied, or redo() with nothing undone. *)
AtBound ==
    \/ op.name = "undo" /\ prev.undo_stack = <<>>
    \/ op.name = "redo" /\ prev.redo_stack = <<>>

(* C6: undo() with nothing applied and redo() with nothing undone return  *)
(* without raising.                                                       *)
C6_BoundsReturnNormally == AtBound => err = NoErr

(* C7: undo() with nothing applied and redo() with nothing undone leave   *)
(* the applied commands, the undone commands and the labels as they were. *)
C7_BoundsChangeNothing == AtBound => S = prev

(* undo() was called with nothing applied on an engine that held an       *)
(* undone command, and the engine is as it was.                           *)
C7_Witness ==
    /\ op.name = "undo"
    /\ prev.undo_stack = <<>>
    /\ prev.redo_stack # <<>>
    /\ S = prev

(* C8: peek(i) does not raise; it returns None for i < 0 and for i at or  *)
(* past the length of the log, and the stored command log[i] otherwise.   *)
C8_PeekNeverFails ==
    op.name = "peek" =>
        /\ err = NoErr
        /\ (op.index < 0 \/ op.index >= Len(prev.undo_stack)) => ret = None
        /\ op.index \in Existing(prev.undo_stack)
              => ret = List(prev.undo_stack[op.index + 1])

---------------------------------------------------------------------------
(* Properties of the command language, checked under LangSpec.            *)

(* C9: for every command C a code generator makes, invert(C) and          *)
(* invert(invert(C)) return without raising and invert(invert(C)) == C.   *)
C9_DoubleInverse ==
    /\ op.name \in {"invert", "invert_again"} => err = NoErr
    /\ op.name = "invert_again" => PyEq(tree, List(expr))

(* C10: for every command t a code generator makes, deparse and parse     *)
(* return without raising and parse(deparse(t)) == t.                     *)
C10_ParseDeparseRoundTrip ==
    /\ op.name \in {"deparse", "parse"} => err = NoErr
    /\ op.name = "parse" => PyEq(tree, List(expr))

(* C23: invert leaves its argument as it was: after invert(C) returned, C *)
(* is the command it was before the call.                                 *)
C23_InvertKeepsArgument ==
    (op.name = "invert" /\ err = NoErr)
        => \E i \in {invert(expr)} : PyEq(List(i.arg), List(expr))

(* The names the environment does not bind.                               *)
IsUnbound(v) == IsSymbol(v) /\ ~IsKeyArg(v) /\ v.s \notin make_env

(* The command evaluated last has an unbound name as its head, as the     *)
(* head of its target or as the value of an argument.                     *)
HasUnbound ==
    /\ op.name = "evaluate"
    /\ \/ \E j \in {1} \cup {2 * k + 1 : k \in 1..(Len(expr) \div 2)} :
              j <= Len(expr) /\ IsUnbound(expr[j])
       \/ IsUnbound(expr[5].l[1])

(* C26: the evaluation of a command with an unbound name raises KeyError  *)
(* for the name and leaves the labels as they were.                       *)
C26_UnboundNameFails ==
    HasUnbound => (err = "KeyError" /\ labels = hist[1].labels)

(* C27: parse of text that is not one complete form raises SyntaxError    *)
(* and returns no tree.                                                   *)
C27_MalformedIsSyntaxError ==
    op.name = "parse_malformed" => (err = "SyntaxError" /\ tree = None)

---------------------------------------------------------------------------
(* Properties of the intents and of the log, checked under Spec.          *)

(* The last call was an intent on a record of the labels, named by an     *)
(* index from the front.                                                  *)
OnExisting(name) ==
    /\ op.name = name
    /\ op.index \in Existing(prev.labels)

(* The records of ls other than those at the positions (from 1) in out.   *)
Others(ls, out) == SelectSeq([i \in 1..Len(ls) |-> <<i \in out, ls[i]>>],
                             LAMBDA x : ~x[1])

(* C14: split(i, sep) with sep strictly inside record i returns without   *)
(* raising; record i keeps its start and name and stops at sep, record    *)
(* i + 1 starts at sep, stops where record i stopped and is named '', and *)
(* the other records are as they were, one more record in all.            *)
C14_SplitMakesTwo ==
    LET i == op.index + 1
        r == prev.labels[i]
    IN  (/\ OnExisting("split")
         /\ r["start"].n < SplitAt.n
         /\ SplitAt.n < r["stop"].n)
        => /\ err = NoErr
           /\ Len(labels) = Len(prev.labels) + 1
           /\ labels[i]["start"] = r["start"]
           /\ labels[i]["stop"] = SplitAt
           /\ labels[i]["name"] = r["name"]
           /\ labels[i + 1]["start"] = SplitAt
           /\ labels[i + 1]["stop"] = r["stop"]
           /\ labels[i + 1]["name"] = Str("")
           /\ Others(labels, {i, i + 1}) = Others(prev.labels, {i})

(* C15: merge_next(i, new_name) on a record with a successor returns      *)
(* without raising; record i keeps its start, stops where its successor   *)
(* stopped and is named new_name, or the two names joined when new_name   *)
(* is None; the successor is gone and the other records are as they were. *)
C15_MergeNextJoins ==
    LET i == op.index + 1
        r == prev.labels[i]
        next == prev.labels[i + 1]
    IN  (OnExisting("merge_next") /\ i < Len(prev.labels))
        => /\ err = NoErr
           /\ Len(labels) = Len(prev.labels) - 1
           /\ labels[i]["start"] = r["start"]
           /\ labels[i]["stop"] = next["stop"]
           /\ labels[i]["name"] = IF op.args.new_name = None
                                  THEN Str(r["name"].s \o next["name"].s)
                                  ELSE op.args.new_name
           /\ Others(labels, {i}) = Others(prev.labels, {i, i + 1})

(* The last call was create(i, start, stop=..., name=..., ...) with i a    *)
(* position of the labels or their length.                                *)
CreatedAt ==
    /\ op.name = "create"
    /\ op.index \in 0..Len(prev.labels)
    /\ {"stop", "name"} \subseteq DOMAIN op.args

(* C16: create(i, start, stop=..., name=..., and further fields) returns  *)
(* without raising; the labels are the labels before the call with one    *)
(* record more at position i, whose fields are start and the fields       *)
(* given, with the values given.                                          *)
C16_CreateInserts ==
    LET i == op.index + 1
        new == [f \in {"start"} \cup DOMAIN op.args |->
                   IF f = "start" THEN CreateStart ELSE op.args[f]]
    IN  CreatedAt
        => /\ err = NoErr
           /\ Len(labels) = Len(prev.labels) + 1
           /\ labels[i] = new
           /\ SubSeq(labels, 1, i - 1) = SubSeq(prev.labels, 1, i - 1)
           /\ SubSeq(labels, i + 1, Len(labels)) = SubSeq(prev.labels, i, Len(prev.labels))

(* A record was created at position 1 of three records, between the first *)
(* and the second, and a record with a tier at position 0 of the result.  *)
C16_Witness ==
    /\ Len(hist) > 2
    /\ CreatedAt
    /\ op.index = 0 /\ InDict(op.args, "tier")
    /\ Ago(1).op.name = "create" /\ Ago(1).op.index = 1 /\ Ago(1).err = NoErr
    /\ Len(Ago(2).labels) = 3
    /\ Len(labels) = 5
    /\ labels[1]["tier"] = Str("f")

(* C19: the commands of the log stay as they were pushed: undo() moves the *)
(* last applied command to the undone commands and redo() moves it back,  *)
(* the command itself unchanged, and the other commands stay in place.    *)
C19_LogKeepsForward ==
    /\ (op.name = "undo" /\ err = NoErr)
          => /\ undo_stack = Front(prev.undo_stack)
             /\ Front(redo_stack) = prev.redo_stack
             /\ PyEq(List(Last(redo_stack)), List(Last(prev.undo_stack)))
    /\ (op.name = "redo" /\ err = NoErr)
          => /\ redo_stack = Front(prev.redo_stack)
             /\ Front(undo_stack) = prev.undo_stack
             /\ PyEq(List(Last(undo_stack)), List(Last(prev.redo_stack)))

(* Every call so far returned without raising.                            *)
AllReturned == \A k \in 1..Len(hist) : hist[k].err = NoErr

(* The record has a numeric start and stop, the start before the stop.    *)
Proper(r) ==
    /\ {"start", "stop"} \subseteq DOMAIN r
    /\ IsNum(r.start) /\ IsNum(r.stop)
    /\ r.start.n < r.stop.n

(* C20: after calls that all returned, on labels whose records began with *)
(* start < stop, every record has a numeric start and stop with           *)
(* start < stop.                                                          *)
C20_StartBeforeStop ==
    ((\A i \in 1..Len(hist[1].labels) : Proper(hist[1].labels[i])) /\ AllReturned)
        => \A i \in 1..Len(labels) : Proper(labels[i])

(* C21: a call of an intent, of undo() or of redo() that raises leaves    *)
(* the labels, the applied commands and the undone commands as they were  *)
(* before the call.                                                       *)
C21_FailureIsAtomic ==
    (op.name \in IntentNames \cup {"undo", "redo"} /\ err # NoErr)
        => /\ labels = prev.labels
           /\ undo_stack = prev.undo_stack
           /\ redo_stack = prev.redo_stack

(* The engine after undo() is called until no applied command remains,    *)
(* and after redo() is called until no undone command remains; each stops *)
(* at the first call that raises.                                         *)
RECURSIVE UndoAll(_)
UndoAll(T) ==
    IF T.undo_stack = <<>> THEN Unchanged(T, NoErr)
    ELSE \* the result of undo, bound once
         The({IF r.err # NoErr THEN r ELSE UndoAll(StateOf(r)) : r \in {undo(T)}})
RECURSIVE RedoAll(_)
RedoAll(T) ==
    IF T.redo_stack = <<>> THEN Unchanged(T, NoErr)
    ELSE The({IF r.err # NoErr THEN r ELSE RedoAll(StateOf(r)) : r \in {redo(T)}})

(* The labels when the last command was pushed: those after the last call *)
(* of an intent, or the first labels when there was none.                 *)
LastApplied ==
    LET pushes == {k \in 1..Len(hist) : hist[k].op.name \in IntentNames}
    IN  IF pushes = {} THEN hist[1].labels
        ELSE hist[CHOOSE k \in pushes : \A j \in pushes : j <= k].labels

(* C22: after calls of intents, undo() and redo() that all returned,      *)
(* undoing every applied command gives the labels the engine was made     *)
(* over, and redoing every undone command then gives the labels that held *)
(* when the last command was pushed.                                      *)
C22_UndoAllRedoAll ==
    (AllReturned /\ \A k \in 2..Len(hist) : hist[k].op.name # "peek")
        => \E u \in {UndoAll(S)} :
              /\ u.err = NoErr
              /\ u.labels = hist[1].labels
              /\ \E r \in {RedoAll(StateOf(u))} :
                    r.err = NoErr /\ r.labels = LastApplied

(* C24: split(i, sep) with sep strictly inside a record i that has fields *)
(* other than start, stop and name returns without raising, and both      *)
(* records it leaves have each of these fields with the value record i    *)
(* had.                                                                   *)
C24_SplitKeepsExtras ==
    LET i == op.index + 1
        r == prev.labels[i]
        extra == DOMAIN r \ {"start", "stop", "name"}
    IN  (/\ OnExisting("split")
         /\ r["start"].n < SplitAt.n
         /\ SplitAt.n < r["stop"].n
         /\ extra # {})
        => /\ err = NoErr
           /\ Len(labels) = Len(prev.labels) + 1
           /\ \A c \in extra :
                 /\ c \in DOMAIN labels[i] /\ labels[i][c] = r[c]
                 /\ c \in DOMAIN labels[i + 1] /\ labels[i + 1][c] = r[c]

(* The names of the fields of the records and of the targets.             *)
FieldNames == {"start", "stop", "name", "next_start", "next_name"}

(* The last call was an undo() of the command of a rename or merge_next   *)
(* that returned, the command has a field name as a string value, and the *)
(* records before it had the same fields.                                 *)
UndoOfFieldName ==
    /\ Len(hist) >= 3
    /\ Ago(0).op.name = "undo"
    /\ Ago(1).op.name \in {"rename", "merge_next"}
    /\ Ago(1).err = NoErr
    /\ \A i, j \in 1..Len(Ago(2).labels) :
           DOMAIN Ago(2).labels[i] = DOMAIN Ago(2).labels[j]
    /\ \E j \in 1..Len(Last(prev.undo_stack)) :
           /\ Last(prev.undo_stack)[j].k = "str"
           /\ Last(prev.undo_stack)[j].s \in FieldNames

(* C25: the undo() of a command that has a field name as a string value   *)
(* returns without raising and leaves the labels as they were before the  *)
(* command.                                                               *)
C25_InvertIgnoresValues ==
    UndoOfFieldName => (Ago(0).err = NoErr /\ labels = Ago(2).labels)

(* The last call was an undo() of a delete(i) with i counted from the end, *)
(* or of a create(i, ...) with i past the end of the labels, that         *)
(* returned.                                                              *)
UndoOfOutside ==
    /\ Len(hist) >= 3
    /\ Ago(0).op.name = "undo"
    /\ Ago(1).err = NoErr
    /\ \/ Ago(1).op.name = "delete" /\ Ago(1).op.index < 0
       \/ Ago(1).op.name = "create" /\ Ago(1).op.index > Len(Ago(2).labels)

(* C28: the undo() of a delete(i) with a negative i, or of a create with  *)
(* an index past the end, returns without raising and leaves the labels   *)
(* as they were before the delete or create.                              *)
C28_UndoOutsideRange ==
    UndoOfOutside => (Ago(0).err = NoErr /\ labels = Ago(2).labels)

---------------------------------------------------------------------------
(* Properties of the engine with its files, checked under FileSpec.       *)

(* A deque of commands as a Python list of lists.                         *)
Log(us) == List([i \in 1..Len(us) |-> List(us[i])])

(* The last call was a construction from the files, right after the       *)
(* engine was written, and neither raised.                                *)
LoadedAfterWrite ==
    /\ Len(hist) > 2
    /\ Ago(0).op.name = "load"
    /\ Ago(0).err = NoErr
    /\ Ago(1).op.name = "write_to_file"
    /\ Ago(1).err = NoErr

(* C11: an engine constructed from the files an engine was written to has *)
(* a log equal, entry by entry, to the log of the engine written, and its *)
(* uuid and its label hash.                                               *)
C11_WriteLoadRoundTrip ==
    LoadedAfterWrite =>
        /\ PyEq(Log(undo_stack), Log(Ago(1).undo_stack))
        /\ uuid = Ago(1).uuid
        /\ label_hash = Ago(1).label_hash

(* The labels left by applying the commands cmds, from the i-th on, to ls: *)
(* [err, labels].                                                         *)
RECURSIVE Replay(_, _, _)
Replay(ls, cmds, i) ==
    IF i > Len(cmds) THEN [err |-> NoErr, labels |-> ls]
    ELSE LET a == _apply(ls, cmds[i])
         IN  IF a.err # NoErr THEN [err |-> a.err, labels |-> a.labels]
             ELSE Replay(a.labels, cmds, i + 1)

(* The last call constructed an engine from the files with apply set.     *)
LoadedWithApply ==
    /\ Ago(0).op.name = "load"
    /\ Ago(0).err = NoErr
    /\ Ago(0).apply

(* C12: an engine constructed from the files with apply set holds the     *)
(* commands of the file, in the order of its lines, all of them applied   *)
(* and none undone, and its labels are the labels it was given with these *)
(* commands applied one after the other.                                  *)
C12_LoadReplaysInOrder ==
    LoadedWithApply =>
        /\ Len(undo_stack) = Len(Ago(0).lines)
        /\ \A i \in 1..Len(undo_stack) :
              List(undo_stack[i]) = parse(Ago(0).lines[i]).val
        /\ redo_stack = <<>>
        /\ Replay(Ago(0).given, undo_stack, 1) = [err |-> NoErr, labels |-> labels]

(* An engine was constructed with apply set from a file of two commands   *)
(* whose order matters, and its labels are not the labels it was given.   *)
C12_Witness ==
    /\ LoadedWithApply
    /\ Len(undo_stack) >= 2
    /\ labels # Ago(0).given
    /\ Replay(Ago(0).given, <<undo_stack[2], undo_stack[1]>>, 1).labels # labels

---------------------------------------------------------------------------
(* Properties of the raw operations, checked under PrimSpec.              *)

(* The last call named a record of the labels by target['index'].         *)
OnRecord ==
    /\ op.name \in Primitives
    /\ InDict(expr, "target")
    /\ InDict(expr["target"].d, "index")
    /\ PyInRange(prev.labels, expr["target"].d["index"].n)

(* The record the last call named, as it was before the call.             *)
Record == PyGet(prev.labels, expr["target"].d["index"].n)

(* The last call was a split of a record at a point that is not strictly  *)
(* inside it.                                                             *)
SplitOutside ==
    /\ op.name = "split"
    /\ OnRecord
    /\ {"new_stop", "new_next_start"} \subseteq DOMAIN expr
    /\ \/ expr["new_stop"].n <= Record["start"].n
       \/ expr["new_next_start"].n >= Record["stop"].n

(* C13: a split of a record with new_stop at or before its start, or      *)
(* new_next_start at or after its stop, raises ValueError and leaves the  *)
(* labels as they were.                                                   *)
C13_SplitOutsideFails ==
    SplitOutside => err = "ValueError" /\ labels = prev.labels

(* A record was split with new_stop inside it and new_next_start on its   *)
(* stop; the call raised and the labels are as they were.                 *)
C13_Witness ==
    /\ SplitOutside
    /\ expr["new_stop"].n > Record["start"].n
    /\ expr["new_next_start"].n = Record["stop"].n
    /\ err = "ValueError"
    /\ labels = prev.labels

(* C17: a call of a raw operation that raises leaves the labels as they   *)
(* were before the call.                                                  *)
C17_FailureLeavesLabels ==
    (op.name \in Primitives /\ err # NoErr) => labels = prev.labels

---------------------------------------------------------------------------
(* Properties of the attributes of the engine, checked under FileSpec.    *)

(* The last call was a push that returned.                                *)
Pushed == op.name \in IntentNames /\ err = NoErr

(* The last call was a write of the files that returned.                  *)
Flushed == op.name = "write_to_file" /\ err = NoErr

(* C18: the engine has an attribute dirty, which is True after a push and *)
(* False after write_to_file.                                             *)
C18_DirtyTracking ==
    /\ Pushed => getattr(E, "dirty").err = NoErr /\ getattr(E, "dirty").val = TRUE
    /\ Flushed => getattr(E, "dirty").err = NoErr /\ getattr(E, "dirty").val = FALSE

===========================================================================
